---- MODULE Spec2Model ----
(***************************************************************************)
(* bootimage: run() measures the kernel, encodes the kernel info block,    *)
(* extracts the .bootloader section and composes the disk image.           *)
(*                                                                         *)
(* Bytes are naturals in 0..255, byte strings are sequences of bytes.      *)
(* A u64 is held as four 16-bit limbs, least significant first, and a u32  *)
(* as two, so that lengths of 2^32 and more keep their width.              *)
(***************************************************************************)
EXTENDS Integers, Sequences, FiniteSets, TLC

VARIABLES
    pc,                 \* position of run() / create_disk_image()
    err,                \* "none", or the error / panic that ended the run
    failedAt,           \* pc at which the run was aborted ("none" before)
    kernel,             \* the bytes the kernel File delivers until Ok(0)
    pos,                \* bytes of the kernel File read so far
    kernel_size,        \* run(): kernel.metadata()?.len()            (u64)
    kernel_info_block,  \* run(): create_kernel_info_block(..), <<>> before
    elf,                \* what xmas_elf finds in the bootloader ELF bytes
    lookups,            \* number of find_section_by_name calls made
    bootloader,         \* run(): build_bootloader(..)?, <<>> before
    cdi_kernel_size,    \* create_disk_image(): kernel.metadata()?.len() (u64)
    preexisting,        \* a file was at args.output when run() started
    created,            \* File::create(&args.output) has returned Ok
    output,             \* the bytes of the file at args.output
    steps,              \* the composer steps begun so far, in order
    interrupts          \* reads that returned ErrorKind::Interrupted

vars == <<pc, err, failedAt, kernel, pos, kernel_size, kernel_info_block, elf,
          lookups, bootloader, cdi_kernel_size, preexisting, created, output,
          steps, interrupts>>

----------------------------------------------------------------------------
(* Program constants *)

BLOCK_SIZE == 512

BUFFER_SIZE == 1024

----------------------------------------------------------------------------
(* Bounds of the model *)

MaxInterrupts == 2

\* kernel file lengths: empty, around one and two sectors, around the buffer
KernelLens == {0, 1, 511, 512, 513, 600, 1024, 1025}

\* kernel content i-th byte = (seed + i * step) % 256
KernelFills == {<<0, 0>>, <<1, 7>>}

\* .bootloader section contents
Bootloaders == {<< >>, <<170, 187>>, <<235, 0, 255>>}

\* content of a file already at args.output
OldContent == <<222, 173, 190>>

\* chunk lengths a read may return besides a full buffer
ShortReads == {300}

----------------------------------------------------------------------------
(* Integers of fixed width *)

Limb == 2 ^ 16

\* a small natural as u64
U64(n) == <<n % Limb, n \div Limb, 0, 0>>

u32_max_value == <<Limb - 1, Limb - 1>>

u64_from(u) == <<u[1], u[2], 0, 0>>

\* a <= b on u64
LeU64(a, b) ==
    \/ a[4] < b[4]
    \/ a[4] = b[4] /\ a[3] < b[3]
    \/ a[4] = b[4] /\ a[3] = b[3] /\ a[2] < b[2]
    \/ a[4] = b[4] /\ a[3] = b[3] /\ a[2] = b[2] /\ a[1] <= b[1]

\* `x as u32`: the low 32 bits
AsU32(x) == <<x[1], x[2]>>

\* (x % 512) for a u64 x: 2^16 is a multiple of 512
Mod512(x) == x[1] % 512

Zeros(n) == [i \in 1..n |-> 0]

IsPrefix(s, t) == Len(s) <= Len(t) /\ s = SubSeq(t, 1, Len(s))

KernelBytes(len, fill) == [i \in 1..len |-> (fill[1] + i * fill[2]) % 256]

----------------------------------------------------------------------------
(* The environment: what the operating system and xmas_elf answer *)

\* lengths kernel.metadata() may report that differ from the bytes delivered
StaleSizes == {U64(600), <<Limb - 1, Limb - 1, 0, 0>>}

\* lengths of 2^32 and more: 2^32, 2^32 + 600, 2^64 - 1
HugeSizes == {<<0, 0, 1, 0>>, <<600, 0, 1, 0>>,
              <<Limb - 1, Limb - 1, Limb - 1, Limb - 1>>}

\* new_ok: ElfFile::new returns Ok; sane: header::sanity_check returns Ok;
\* section: the raw data of the sections named .bootloader (none, or one)
ElfFiles ==
    {e \in [new_ok : BOOLEAN, sane : BOOLEAN,
            section : {{}} \cup {{b} : b \in Bootloaders}] : e.sane => e.new_ok}

\* the chunk lengths one read of a File with `remaining` bytes left may return
ChunkLens(remaining) ==
    {n \in ShortReads \cup {BUFFER_SIZE, remaining} :
        n >= 1 /\ n <= remaining /\ n <= BUFFER_SIZE}

\* how many bytes of data a failing write_all may have written before failing
PartialWrites(data) == {k \in {0, 1, Len(data) - 1} : k >= 0 /\ k < Len(data)}

----------------------------------------------------------------------------
(* Pure functions of the program *)

\* mutant: most significant byte first
BigEndian_write_u32(buf, n) ==
    [buf EXCEPT ![1] = n[2] \div 256, ![2] = n[2] % 256,
                ![3] = n[1] \div 256, ![4] = n[1] % 256]

LittleEndian_write_u32(buf, n) ==
    [buf EXCEPT ![1] = n[1] % 256, ![2] = n[1] \div 256,
                ![3] = n[2] % 256, ![4] = n[2] \div 256]

\* mutant: no test, `as u32` truncates silently
KernelFitsUnchecked(size) == TRUE

\* the test of create_kernel_info_block
KernelFits(size) == LeU64(size, u64_from(u32_max_value))

\* create_kernel_info_block where it does not panic
create_kernel_info_block(size) ==
    LittleEndian_write_u32(Zeros(BLOCK_SIZE), AsU32(size))

padding_size(size) == (512 - Mod512(size)) % 512

----------------------------------------------------------------------------
(* run() *)

Init ==
    /\ pc = "build_kernel"
    /\ err = "none"
    /\ failedAt = "none"
    /\ \E len \in KernelLens, fill \in KernelFills : kernel = KernelBytes(len, fill)
    /\ pos = 0
    /\ kernel_size = U64(0)
    /\ kernel_info_block = << >>
    /\ elf \in ElfFiles
    /\ lookups = 0
    /\ bootloader = << >>
    /\ cdi_kernel_size = U64(0)
    /\ preexisting \in BOOLEAN
    /\ created = FALSE
    /\ output = IF preexisting THEN OldContent ELSE << >>
    /\ steps = << >>
    /\ interrupts = 0

\* `?` on an Err, a panic, or process::exit(1): the run ends here
Abort(e) ==
    /\ pc' = "aborted"
    /\ err' = e
    /\ failedAt' = pc

Goto(next) ==
    /\ pc' = next
    /\ UNCHANGED <<err, failedAt>>

\* read_cargo_metadata(&args)? and build_kernel(&args, &metadata)?
BuildKernel ==
    /\ pc = "build_kernel"
    /\ Goto("kernel_metadata")
    /\ UNCHANGED <<kernel, pos, kernel_size, kernel_info_block, elf, lookups,
                   bootloader, cdi_kernel_size, preexisting, created, output,
                   steps, interrupts>>

BuildKernelFail ==
    /\ pc = "build_kernel"
    /\ \E e \in {"CargoMetadata", "Io", "exit(1)"} : Abort(e)
    /\ UNCHANGED <<kernel, pos, kernel_size, kernel_info_block, elf, lookups,
                   bootloader, cdi_kernel_size, preexisting, created, output,
                   steps, interrupts>>

\* let kernel_size = kernel.metadata()?.len();
KernelMetadata ==
    /\ pc = "kernel_metadata"
    /\ \E size \in {U64(Len(kernel))} \cup StaleSizes \cup HugeSizes :
          kernel_size' = size
    /\ Goto("info_block")
    /\ UNCHANGED <<kernel, pos, kernel_info_block, elf, lookups, bootloader,
                   cdi_kernel_size, preexisting, created, output, steps,
                   interrupts>>

KernelMetadataFail ==
    /\ pc = "kernel_metadata"
    /\ Abort("Io")
    /\ UNCHANGED <<kernel, pos, kernel_size, kernel_info_block, elf, lookups,
                   bootloader, cdi_kernel_size, preexisting, created, output,
                   steps, interrupts>>

\* let kernel_info_block = create_kernel_info_block(kernel_size);
CreateKernelInfoBlock ==
    /\ pc = "info_block"
    /\ KernelFits(kernel_size)
    /\ kernel_info_block' = create_kernel_info_block(kernel_size)
    /\ Goto("download_bootloader")
    /\ UNCHANGED <<kernel, pos, kernel_size, elf, lookups, bootloader,
                   cdi_kernel_size, preexisting, created, output, steps,
                   interrupts>>

\* panic!("Kernel can't be loaded by BIOS bootloader because is too big")
KernelTooLarge ==
    /\ pc = "info_block"
    /\ ~KernelFits(kernel_size)
    /\ Abort("KernelTooLarge")
    /\ UNCHANGED <<kernel, pos, kernel_size, kernel_info_block, elf, lookups,
                   bootloader, cdi_kernel_size, preexisting, created, output,
                   steps, interrupts>>

----------------------------------------------------------------------------
(* build_bootloader() *)

\* download_bootloader(out_dir)?, run_xargo_build, File::open, read_to_end
FetchBootloader ==
    /\ pc = "download_bootloader"
    /\ Goto("elf_new")
    /\ UNCHANGED <<kernel, pos, kernel_size, kernel_info_block, elf, lookups,
                   bootloader, cdi_kernel_size, preexisting, created, output,
                   steps, interrupts>>

FetchBootloaderFail ==
    /\ pc = "download_bootloader"
    /\ \E e \in {"Io", "CargoMetadata", "Bootloader", "exit(1)"} : Abort(e)
    /\ UNCHANGED <<kernel, pos, kernel_size, kernel_info_block, elf, lookups,
                   bootloader, cdi_kernel_size, preexisting, created, output,
                   steps, interrupts>>

\* xmas_elf::ElfFile::new(&bootloader_elf_bytes).unwrap()
ElfNew ==
    /\ pc = "elf_new"
    /\ elf.new_ok
    /\ Goto("sanity_check")
    /\ UNCHANGED <<kernel, pos, kernel_size, kernel_info_block, elf, lookups,
                   bootloader, cdi_kernel_size, preexisting, created, output,
                   steps, interrupts>>

ElfNewPanic ==
    /\ pc = "elf_new"
    /\ ~elf.new_ok
    /\ Abort("MalformedElf")
    /\ UNCHANGED <<kernel, pos, kernel_size, kernel_info_block, elf, lookups,
                   bootloader, cdi_kernel_size, preexisting, created, output,
                   steps, interrupts>>

\* mutant: the result of sanity_check is dropped
SanityCheckIgnored ==
    /\ pc = "sanity_check"
    /\ ~elf.sane
    /\ Goto("find_section")
    /\ UNCHANGED <<kernel, pos, kernel_size, kernel_info_block, elf, lookups,
                   bootloader, cdi_kernel_size, preexisting, created, output,
                   steps, interrupts>>

\* xmas_elf::header::sanity_check(&elf_file).unwrap()
SanityCheck ==
    /\ pc = "sanity_check"
    /\ elf.sane
    /\ Goto("find_section")
    /\ UNCHANGED <<kernel, pos, kernel_size, kernel_info_block, elf, lookups,
                   bootloader, cdi_kernel_size, preexisting, created, output,
                   steps, interrupts>>

SanityCheckPanic ==
    /\ pc = "sanity_check"
    /\ ~elf.sane
    /\ Abort("MalformedElf")
    /\ UNCHANGED <<kernel, pos, kernel_size, kernel_info_block, elf, lookups,
                   bootloader, cdi_kernel_size, preexisting, created, output,
                   steps, interrupts>>

\* elf_file.find_section_by_name(".bootloader").expect(..), raw_data
FindSection ==
    /\ pc = "find_section"
    /\ elf.section # {}
    /\ lookups' = lookups + 1
    /\ bootloader' = CHOOSE b \in elf.section : TRUE
    /\ Goto("create")
    /\ UNCHANGED <<kernel, pos, kernel_size, kernel_info_block, elf,
                   cdi_kernel_size, preexisting, created, output, steps,
                   interrupts>>

FindSectionPanic ==
    /\ pc = "find_section"
    /\ elf.section = {}
    /\ lookups' = lookups + 1
    /\ Abort("SectionNotFound")
    /\ UNCHANGED <<kernel, pos, kernel_size, kernel_info_block, elf,
                   bootloader, cdi_kernel_size, preexisting, created, output,
                   steps, interrupts>>

----------------------------------------------------------------------------
(* create_disk_image() *)

\* mutant: the file is opened for writing without truncation
CreateOutputKeepsContent ==
    /\ pc = "create"
    /\ created' = TRUE
    /\ steps' = Append(steps, "Init")
    /\ Goto("write_bootloader")
    /\ UNCHANGED <<kernel, pos, kernel_size, kernel_info_block, elf, lookups,
                   bootloader, cdi_kernel_size, preexisting, output,
                   interrupts>>

\* let mut output = File::create(&args.output)?;
CreateOutput ==
    /\ pc = "create"
    /\ created' = TRUE
    /\ output' = << >>
    /\ steps' = Append(steps, "Init")
    /\ Goto("write_bootloader")
    /\ UNCHANGED <<kernel, pos, kernel_size, kernel_info_block, elf, lookups,
                   bootloader, cdi_kernel_size, preexisting, interrupts>>

CreateOutputFail ==
    /\ pc = "create"
    /\ steps' = Append(steps, "Init")
    /\ Abort("Io")
    /\ UNCHANGED <<kernel, pos, kernel_size, kernel_info_block, elf, lookups,
                   bootloader, cdi_kernel_size, preexisting, created, output,
                   interrupts>>

\* output.write_all(data) returning Ok
write_all(data) == output' = output \o data

\* output.write_all(data) returning Err: an empty slice cannot fail
write_all_fail(data) ==
    \E k \in PartialWrites(data) : output' = output \o SubSeq(data, 1, k)

\* output.write_all(&bootloader_data)?;
WriteBootloader ==
    /\ pc = "write_bootloader"
    /\ write_all(bootloader)
    /\ steps' = Append(steps, "WriteBootloader")
    /\ Goto("write_info_block")
    /\ UNCHANGED <<kernel, pos, kernel_size, kernel_info_block, elf, lookups,
                   bootloader, cdi_kernel_size, preexisting, created,
                   interrupts>>

WriteBootloaderFail ==
    /\ pc = "write_bootloader"
    /\ write_all_fail(bootloader)
    /\ steps' = Append(steps, "WriteBootloader")
    /\ Abort("Io")
    /\ UNCHANGED <<kernel, pos, kernel_size, kernel_info_block, elf, lookups,
                   bootloader, cdi_kernel_size, preexisting, created,
                   interrupts>>

\* output.write_all(&kernel_info_block)?;
WriteInfoBlock ==
    /\ pc = "write_info_block"
    /\ write_all(kernel_info_block)
    /\ steps' = Append(steps, "WriteMetadata")
    /\ Goto("cdi_metadata")
    /\ UNCHANGED <<kernel, pos, kernel_size, kernel_info_block, elf, lookups,
                   bootloader, cdi_kernel_size, preexisting, created,
                   interrupts>>

WriteInfoBlockFail ==
    /\ pc = "write_info_block"
    /\ write_all_fail(kernel_info_block)
    /\ steps' = Append(steps, "WriteMetadata")
    /\ Abort("Io")
    /\ UNCHANGED <<kernel, pos, kernel_size, kernel_info_block, elf, lookups,
                   bootloader, cdi_kernel_size, preexisting, created,
                   interrupts>>

\* let kernel_size = kernel.metadata()?.len();
CdiKernelMetadata ==
    /\ pc = "cdi_metadata"
    /\ \E size \in {U64(Len(kernel)), kernel_size} \cup StaleSizes :
          cdi_kernel_size' = size
    /\ steps' = Append(steps, "WriteKernel")
    /\ Goto("copy")
    /\ UNCHANGED <<kernel, pos, kernel_size, kernel_info_block, elf, lookups,
                   bootloader, preexisting, created, output, interrupts>>

CdiKernelMetadataFail ==
    /\ pc = "cdi_metadata"
    /\ steps' = Append(steps, "WriteKernel")
    /\ Abort("Io")
    /\ UNCHANGED <<kernel, pos, kernel_size, kernel_info_block, elf, lookups,
                   bootloader, cdi_kernel_size, preexisting, created, output,
                   interrupts>>

\* mutant: a zero-length read does not leave the loop
ReadEofContinues ==
    /\ pc = "copy"
    /\ pos = Len(kernel)
    /\ Goto("copy")
    /\ UNCHANGED <<kernel, pos, kernel_size, kernel_info_block, elf, lookups,
                   bootloader, cdi_kernel_size, preexisting, created, output,
                   steps, interrupts>>

\* kernel.read(&mut buffer) returns Ok(0): break
ReadEof ==
    /\ pc = "copy"
    /\ pos = Len(kernel)
    /\ Goto("padding")
    /\ UNCHANGED <<kernel, pos, kernel_size, kernel_info_block, elf, lookups,
                   bootloader, cdi_kernel_size, preexisting, created, output,
                   steps, interrupts>>

\* kernel.read(&mut buffer) returns Ok(n), n > 0; output.write_all(&buffer[..n])
ReadChunk ==
    /\ pc = "copy"
    /\ \E n \in ChunkLens(Len(kernel) - pos) :
          /\ pos' = pos + n
          /\ write_all(SubSeq(kernel, pos + 1, pos + n))
    /\ Goto("copy")
    /\ UNCHANGED <<kernel, kernel_size, kernel_info_block, elf, lookups,
                   bootloader, cdi_kernel_size, preexisting, created, steps,
                   interrupts>>

\* kernel.read(&mut buffer) returns Ok(n), n > 0; output.write_all(..)? fails
ReadChunkWriteFail ==
    /\ pc = "copy"
    /\ \E n \in ChunkLens(Len(kernel) - pos) :
          /\ pos' = pos + n
          /\ write_all_fail(SubSeq(kernel, pos + 1, pos + n))
    /\ Abort("Io")
    /\ UNCHANGED <<kernel, kernel_size, kernel_info_block, elf, lookups,
                   bootloader, cdi_kernel_size, preexisting, created, steps,
                   interrupts>>

\* mutant: an interrupted read ends the copy loop like Ok(0)
ReadInterruptedBreaks ==
    /\ pc = "copy"
    /\ interrupts < MaxInterrupts
    /\ interrupts' = interrupts + 1
    /\ Goto("padding")
    /\ UNCHANGED <<kernel, pos, kernel_size, kernel_info_block, elf, lookups,
                   bootloader, cdi_kernel_size, preexisting, created, output,
                   steps>>

\* Err(ref e) if e.kind() == io::ErrorKind::Interrupted => (0, true)
ReadInterrupted ==
    /\ pc = "copy"
    /\ interrupts < MaxInterrupts
    /\ interrupts' = interrupts + 1
    /\ Goto("copy")
    /\ UNCHANGED <<kernel, pos, kernel_size, kernel_info_block, elf, lookups,
                   bootloader, cdi_kernel_size, preexisting, created, output,
                   steps>>

\* mutant: the read error is noted and the loop is left as on Ok(0)
ReadErrorContinues ==
    /\ pc = "copy"
    /\ pc' = "padding"
    /\ err' = "Io"
    /\ failedAt' = "copy"
    /\ UNCHANGED <<kernel, pos, kernel_size, kernel_info_block, elf, lookups,
                   bootloader, cdi_kernel_size, preexisting, created, output,
                   steps, interrupts>>

\* Err(e) => Err(e)?
ReadError ==
    /\ pc = "copy"
    /\ Abort("Io")
    /\ UNCHANGED <<kernel, pos, kernel_size, kernel_info_block, elf, lookups,
                   bootloader, cdi_kernel_size, preexisting, created, output,
                   steps, interrupts>>

\* let padding = [0u8; 512]; output.write_all(&padding[..padding_size])?; Ok(())
WritePadding ==
    /\ pc = "padding"
    /\ write_all(SubSeq(Zeros(512), 1, padding_size(cdi_kernel_size)))
    /\ steps' = steps \o <<"WritePadding", "Done">>
    /\ Goto("done")
    /\ UNCHANGED <<kernel, pos, kernel_size, kernel_info_block, elf, lookups,
                   bootloader, cdi_kernel_size, preexisting, created,
                   interrupts>>

WritePaddingFail ==
    /\ pc = "padding"
    /\ write_all_fail(SubSeq(Zeros(512), 1, padding_size(cdi_kernel_size)))
    /\ steps' = Append(steps, "WritePadding")
    /\ Abort("Io")
    /\ UNCHANGED <<kernel, pos, kernel_size, kernel_info_block, elf, lookups,
                   bootloader, cdi_kernel_size, preexisting, created,
                   interrupts>>

----------------------------------------------------------------------------

Next ==
    \/ BuildKernel
    \/ BuildKernelFail
    \/ KernelMetadata
    \/ KernelMetadataFail
    \/ CreateKernelInfoBlock
    \/ KernelTooLarge
    \/ FetchBootloader
    \/ FetchBootloaderFail
    \/ ElfNew
    \/ ElfNewPanic
    \/ SanityCheck
    \/ SanityCheckPanic
    \/ FindSection
    \/ FindSectionPanic
    \/ CreateOutput
    \/ CreateOutputFail
    \/ WriteBootloader
    \/ WriteBootloaderFail
    \/ WriteInfoBlock
    \/ WriteInfoBlockFail
    \/ CdiKernelMetadata
    \/ CdiKernelMetadataFail
    \/ ReadEof
    \/ ReadChunk
    \/ ReadChunkWriteFail
    \/ ReadInterrupted
    \/ ReadError
    \/ WritePadding
    \/ WritePaddingFail

Spec == Init /\ [][Next]_vars

\* The steps that need no I/O error and no interrupted read to be taken.
Progress ==
    \/ BuildKernel
    \/ KernelMetadata
    \/ CreateKernelInfoBlock
    \/ KernelTooLarge
    \/ FetchBootloader
    \/ ElfNew
    \/ ElfNewPanic
    \/ SanityCheck
    \/ SanityCheckPanic
    \/ FindSection
    \/ FindSectionPanic
    \/ CreateOutput
    \/ WriteBootloader
    \/ WriteInfoBlock
    \/ CdiKernelMetadata
    \/ ReadEof
    \/ ReadChunk
    \/ WritePadding

\* run() is one sequential thread and every call it makes returns: while the
\* run has not ended, its next statement is eventually executed.  Errors and
\* interrupted reads are the environment's choice and are never forced.
LiveSpec == Spec /\ WF_vars(Progress)

\* create_kernel_info_block alone, over kernel sizes on both sides of 2^32
EncoderSizes ==
    {<<a, b, c, d>> : a \in {0, 1, 255, 256, 600, Limb - 1},
                      b \in {0, 1, 255, 256, Limb - 1},
                      c \in {0, 1}, d \in {0, Limb - 1}}

InitEncoder ==
    /\ pc = "info_block"
    /\ err = "none"
    /\ failedAt = "none"
    /\ kernel = << >>
    /\ pos = 0
    /\ kernel_size \in EncoderSizes
    /\ kernel_info_block = << >>
    /\ elf = [new_ok |-> TRUE, sane |-> TRUE, section |-> {<< >>}]
    /\ lookups = 0
    /\ bootloader = << >>
    /\ cdi_kernel_size = U64(0)
    /\ preexisting = FALSE
    /\ created = FALSE
    /\ output = << >>
    /\ steps = << >>
    /\ interrupts = 0

NextEncoder == CreateKernelInfoBlock \/ KernelTooLarge

SpecEncoder == InitEncoder /\ [][NextEncoder]_vars

----------------------------------------------------------------------------
(* Vocabulary of the properties *)

\* unsigned little-endian decoding of four bytes, as a u32
LittleEndian_read_u32(bytes) ==
    <<bytes[1] + 256 * bytes[2], bytes[3] + 256 * bytes[4]>>

\* 0 <= size <= 2^32 - 1
InU32Range(size) == size[3] = 0 /\ size[4] = 0

\* the file at args.output as run() found it
InitialOutput == IF preexisting THEN OldContent ELSE << >>

OutputUntouched == ~created /\ output = InitialOutput /\ steps = << >>

Ended == pc = "done" \/ pc = "aborted"

\* create_kernel_info_block has returned or panicked
Encoded ==
    /\ pc \notin {"build_kernel", "kernel_metadata", "info_block"}
    /\ failedAt \notin {"build_kernel", "kernel_metadata"}

\* the run is inside create_disk_image, or has left it
Composing ==
    \/ pc \in {"create", "write_bootloader", "write_info_block", "cdi_metadata",
               "copy", "padding", "done"}
    \/ created

\* the bytes of the output that follow the bootloader and the info block
KernelRegion == SubSeq(output, Len(bootloader) + BLOCK_SIZE + 1, Len(output))

PipelineSteps ==
    <<"Init", "WriteBootloader", "WriteMetadata", "WriteKernel", "WritePadding",
      "Done">>

\* what a composition of these inputs writes when no read is interrupted
UninterruptedImage ==
    bootloader \o kernel_info_block \o kernel
        \o Zeros(padding_size(cdi_kernel_size))

----------------------------------------------------------------------------
(* C3: for every kernel length S in [0, 2^32-1] create_kernel_info_block(S)
   returns a block of exactly 512 bytes whose first 4 bytes decode, unsigned
   little-endian, to S and whose bytes 4..511 are all zero. *)
C3_InfoBlockEncodesSize ==
    (Encoded /\ InU32Range(kernel_size)) =>
        /\ Len(kernel_info_block) = 512
        /\ u64_from(LittleEndian_read_u32(SubSeq(kernel_info_block, 1, 4)))
              = kernel_size
        /\ \A i \in 5..512 : kernel_info_block[i] = 0
        /\ \A i \in 1..4 : kernel_info_block[i] \in 0..255

C3_Witness ==
    /\ Encoded
    /\ kernel_size = <<600, 255, 0, 0>>
    /\ SubSeq(kernel_info_block, 1, 4) = <<88, 2, 255, 0>>

(* C4: for every kernel length S >= 2^32 the run fails with KernelTooLarge,
   no info block is produced, and the output file is neither created,
   truncated nor written: a file already at the output path is unchanged. *)
C4_TooLargeFailsBeforeOutput ==
    (Encoded /\ ~InU32Range(kernel_size)) =>
        /\ pc = "aborted"
        /\ err = "KernelTooLarge"
        /\ failedAt = "info_block"
        /\ kernel_info_block = << >>
        /\ OutputUntouched

C4_Witness ==
    /\ pc = "aborted"
    /\ err = "KernelTooLarge"
    /\ kernel_size = <<600, 0, 1, 0>>
    /\ preexisting
    /\ output = OldContent

(* C1: when create_disk_image completes successfully the output file is
   exactly bootloader bytes, then the 512-byte info block, then the kernel's
   bytes in their original order, then a run of zero bytes, with nothing in
   between; and the 32-bit little-endian value in the info block equals the
   number of kernel bytes that follow it. *)
C1_ImageLayout ==
    pc = "done" =>
        /\ Len(output) >= Len(bootloader) + BLOCK_SIZE + Len(kernel)
        /\ output = bootloader \o kernel_info_block \o kernel
              \o Zeros(Len(output) - Len(bootloader) - BLOCK_SIZE - Len(kernel))
        /\ Len(kernel_info_block) = BLOCK_SIZE
        /\ u64_from(LittleEndian_read_u32(
               SubSeq(output, Len(bootloader) + 1, Len(bootloader) + 4)))
              = U64(Len(kernel))

\* C1 where both kernel.metadata() calls report the length that is read
C1_ImageLayoutOfStableKernel ==
    (kernel_size = U64(Len(kernel)) /\ cdi_kernel_size = U64(Len(kernel)))
        => C1_ImageLayout

(* C2: a successfully composed image has length
   bootloader_len + 512 + kernel_len + padding with
   padding = (512 - kernel_len mod 512) mod 512, so that
   (image_length - bootloader_len) mod 512 = 0; padding is in 0..511 and is 0
   exactly when kernel_len mod 512 = 0.  kernel_len is read either as the
   number of kernel bytes in the image or as the length create_disk_image
   measured; the statement is taken to hold when it holds for one of them. *)
C2_ImageLength ==
    pc = "done" =>
        \E kernel_len \in {Len(kernel), Len(KernelRegion)
                                          - padding_size(cdi_kernel_size)} :
            LET padding == (512 - (kernel_len % 512)) % 512 IN
            /\ kernel_len >= 0
            /\ kernel_len = Len(kernel) \/ U64(kernel_len) = cdi_kernel_size
            /\ Len(output) = Len(bootloader) + 512 + kernel_len + padding
            /\ (Len(output) - Len(bootloader)) % 512 = 0
            /\ padding \in 0..511
            /\ (padding = 0) <=> (kernel_len % 512 = 0)

\* C2 where create_disk_image measures the length that is read
C2_ImageLengthOfStableKernel ==
    cdi_kernel_size = U64(Len(kernel)) => C2_ImageLength

(* C8: when the number of bytes read from the kernel source differs from the
   kernel's reported length (the one in the info block, the one used for the
   padding) composition fails with IoError: it never completes successfully
   with a kernel region shorter or longer than the recorded length. *)
C8_LengthMismatchFails ==
    (pos # 0 \/ pc \in {"padding", "done"}) =>
        ((U64(pos) # kernel_size \/ U64(pos) # cdi_kernel_size)
            => pc # "done")

(* C5: interrupted reads, any number of them at any points, leave the output
   byte-identical to that of the uninterrupted source: an interrupted read
   writes nothing, does not end the copy loop, loses and duplicates no byte
   and is not surfaced as an error. *)
C5_InterruptedReadsInvisible ==
    /\ pc = "copy" =>
          /\ output = bootloader \o kernel_info_block \o SubSeq(kernel, 1, pos)
          /\ err = "none"
    /\ pc = "padding" => pos = Len(kernel)
    /\ pc = "done" => output = UninterruptedImage /\ err = "none"

C5_Witness ==
    /\ pc = "done"
    /\ interrupts > 1
    /\ Len(kernel) = 1025
    /\ kernel[1025] # 0

\* the composer steps begun when the run was aborted at position p
StepsBegunAt(p) ==
    CASE p = "create" -> 1
      [] p = "write_bootloader" -> 2
      [] p = "write_info_block" -> 3
      [] p \in {"cdi_metadata", "copy"} -> 4
      [] p = "padding" -> 5
      [] OTHER -> 0

(* C6: the first I/O error other than an interrupted read, at any step
   (create, bootloader write, info block write, kernel read, kernel write,
   padding write), aborts the composition at once: that error is returned, no
   later step runs, no byte is written after the error (no padding follows a
   failed kernel copy), and the partial file is not removed or rolled back. *)
C6_FirstErrorAborts ==
    /\ err # "none" <=> pc = "aborted"
    /\ (pc = "aborted" /\ StepsBegunAt(failedAt) > 0) =>
          /\ err = "Io"
          /\ steps = SubSeq(PipelineSteps, 1, StepsBegunAt(failedAt))
          /\ failedAt = "create" => ~created /\ output = InitialOutput
          /\ failedAt # "create" => created
          /\ failedAt = "write_bootloader" =>
                /\ IsPrefix(output, bootloader)
                /\ Len(output) < Len(bootloader)
          /\ failedAt = "write_info_block" =>
                /\ IsPrefix(output, bootloader \o kernel_info_block)
                /\ Len(output) >= Len(bootloader)
                /\ Len(output) < Len(bootloader) + BLOCK_SIZE
          /\ failedAt = "cdi_metadata" =>
                output = bootloader \o kernel_info_block
          /\ failedAt = "copy" =>
                /\ IsPrefix(output, bootloader \o kernel_info_block
                                       \o SubSeq(kernel, 1, pos))
                /\ Len(output) >= Len(bootloader) + BLOCK_SIZE
          /\ failedAt = "padding" =>
                /\ IsPrefix(output, UninterruptedImage)
                /\ Len(output) >= Len(bootloader) + BLOCK_SIZE + Len(kernel)
                /\ Len(output) < Len(UninterruptedImage)

C6_Witness ==
    /\ pc = "aborted"
    /\ failedAt = "copy"
    /\ pos = 1024
    /\ Len(kernel) = 1025
    /\ Len(output) = Len(bootloader) + BLOCK_SIZE + 1023
    /\ output[Len(output)] # 0

(* C7: when the bootloader ELF fails structural validation (MalformedElf) or
   has no section named .bootloader (SectionNotFound) the run fails before
   composition begins: the structural check comes before the section lookup,
   the output file is never created or truncated and no output byte is
   written. *)
C7_BadElfFailsBeforeComposition ==
    /\ err \in {"MalformedElf", "SectionNotFound"} =>
          /\ pc = "aborted"
          /\ OutputUntouched
    /\ err = "MalformedElf" => lookups = 0
    /\ lookups > 0 => elf.new_ok /\ elf.sane
    /\ Composing => elf.new_ok /\ elf.sane /\ elf.section # {}
    /\ (pc = "aborted" /\ failedAt \in {"elf_new", "sanity_check"})
          => err = "MalformedElf" /\ ~(elf.new_ok /\ elf.sane)
    /\ (pc = "aborted" /\ failedAt = "find_section")
          => err = "SectionNotFound" /\ elf.section = {}

C7_Witness ==
    /\ pc = "aborted"
    /\ err = "MalformedElf"
    /\ failedAt = "sanity_check"
    /\ elf.section # {}
    /\ preexisting
    /\ output = OldContent

(* C9: the output file is created empty (truncating any existing content) at
   Init and is then only appended to: in every reachable state of a
   composition, aborted ones included, its contents are a prefix of
   bootloader ++ info block ++ kernel bytes ++ zero padding, no byte already
   written is later changed, and the steps occur only in the order Init,
   WriteBootloader, WriteMetadata, WriteKernel, WritePadding, Done. *)
C9_AppendOnlyInOrder ==
    /\ [](created => IsPrefix(output, UninterruptedImage))
    /\ [](IsPrefix(steps, PipelineSteps))
    /\ [](Len(output) > 0 /\ created => Len(steps) >= 2)
    /\ [][~created /\ created' => output' = << >> /\ steps' = <<"Init">>]_vars
    /\ [][created => created' /\ IsPrefix(output, output')]_vars
    /\ [][IsPrefix(steps, steps')]_vars

C9_Witness ==
    /\ pc = "aborted"
    /\ failedAt = "padding"
    /\ preexisting
    /\ Len(kernel) = 513
    /\ Len(output) = Len(bootloader) + BLOCK_SIZE + 513 + 510

(* C10: for a kernel source of finite length every composition eventually
   ends, in Done or aborted with the first unrecoverable error: the copy loop
   exits on the first zero-length read or the first non-interrupted error and
   the pipeline never remains in WriteKernel forever. *)
C10_CompositionEnds == <>Ended

C10_Witness ==
    /\ pc = "done"
    /\ Len(kernel) = 1025
    /\ interrupts > 0
    /\ Len(output) = Len(bootloader) + BLOCK_SIZE + 1025 + 511

====
